---- MODULE Spec2Model ----
(***************************************************************************)
(* Model of src/server.py, the WhiplashXLM Bot API: a FastAPI application  *)
(* with an /api router (status records kept in MongoDB, wallet balances    *)
(* fetched from Stellar Horizon).                                          *)
(*                                                                         *)
(* Python values are modelled as follows.  A dict is a TLA+ function whose *)
(* DOMAIN is the set of keys present, so d.get(k, default) and the         *)
(* KeyError of d[k] are expressible.  None is the value None below.  A     *)
(* datetime is a number of microseconds.  A uuid4 is a fresh number.       *)
(***************************************************************************)
EXTENDS Integers, Sequences, FiniteSets, TLC

\* ------------------------------------------------------------------ bounds

\* Number of request slots of the concurrent specification (Spec, FairSpec).
MaxReqs == 2
\* Longest balances list the ledger returns in the model.
MaxBalances == 2
\* In SpecStatus, the first MaxVaried records take any name and timestamp of
\* the input sets, later ones the default input.
MaxVaried == 1
\* In SpecStatus, POST /api/status is taken while fewer records are stored.
MaxStatusPosts == 1001

\* ------------------------------------------------------- program constants

\* server.py:34
WLX_ISSUER == "GBG5YTLEZ6PLZ33TIF2IGYPAEJ66ES4A5JOX7SRQVEZY55WRACDEWZPV"
\* Some other issuing account (an input value).
OTHER_ISSUER == "GOTHERISSUER"
\* server.py:175, the length handed to to_list
ListLimit == 1000

None == "<None>"

\* ------------------------------------------------------------------ inputs

ClientNames == {"alice", "bob"}
\* datetime.utcnow() in microseconds: one value on a millisecond, one not.
Timestamps == {2000, 2500}
DefaultInput == <<"alice", 2500>>

\* Candidate public_key strings, by the properties the strkey decoder reads.
\* text is the string itself.
Keys ==
    { [text |-> "GA", version |-> "G", len |-> 56, checksum_ok |-> TRUE],
      [text |-> "SA", version |-> "S", len |-> 56, checksum_ok |-> TRUE],
      [text |-> "GSHORT", version |-> "G", len |-> 55, checksum_ok |-> TRUE],
      [text |-> "GBADCRC", version |-> "G", len |-> 56, checksum_ok |-> FALSE] }
NoKey == [text |-> "", version |-> "", len |-> 0, checksum_ok |-> FALSE]

\* Entries of the 'balances' list of a Horizon account response.
BalanceEntries ==
    { [asset_type |-> "native", balance |-> "10.0"],
      [asset_type |-> "native", balance |-> "20.0"],
      [asset_type |-> "credit_alphanum4", asset_code |-> "WLX",
       asset_issuer |-> WLX_ISSUER, balance |-> "5.0", limit |-> "900.0"],
      [asset_type |-> "credit_alphanum4", asset_code |-> "WLX",
       asset_issuer |-> OTHER_ISSUER, balance |-> "6.0", limit |-> "900.0"],
      [asset_type |-> "credit_alphanum4", asset_code |-> "USDC",
       asset_issuer |-> WLX_ISSUER, balance |-> "7.0", limit |-> "900.0"],
      [asset_type |-> "liquidity_pool_shares", balance |-> "8.0",
       limit |-> "900.0"],
      [asset_type |-> "native"] }

RECURSIVE SeqsUpTo(_, _)
SeqsUpTo(S, n) ==
    IF n = 0 THEN { <<>> }
    ELSE LET shorter == SeqsUpTo(S, n - 1)
         IN  shorter \cup { Append(s, e) : s \in shorter, e \in S }

AccountIds == {"GA", "GB"}

\* Outcomes of self.server.accounts().account_id(public_key).call()
LedgerOutcomes ==
    { [kind |-> "ok", account_id |-> a, balances |-> bs] :
        a \in AccountIds, bs \in SeqsUpTo(BalanceEntries, MaxBalances) }
    \cup { [kind |-> k, account_id |-> None, balances |-> <<>>] :
             k \in {"NotFoundError", "ConnectionError", "BadRequestError"} }
NoOutcome == [kind |-> "none", account_id |-> None, balances |-> <<>>]

\* The outcomes the concurrent specification draws from: every error, the
\* empty list and every list of one entry (the slots keep the status only).
SlotOutcomes == { o \in LedgerOutcomes : Len(o.balances) <= 1 }

\* ---------------------------------------------------------- pure functions

\* dict.get(k, default)
Get(d, k, default) == IF k \in DOMAIN d THEN d[k] ELSE default

\* Keypair.from_public_key(v) returns (TRUE) or raises (FALSE): the strkey
\* must be 56 characters, carry the account version byte 'G' and a valid
\* checksum.
from_public_key(k) ==
    /\ k.len = 56
    /\ k.version = "G"
    /\ k.checksum_ok

\* WalletBalanceRequest.validate_public_key
validate_public_key(k) == from_public_key(k)
\* Mutant of AssetBalance: the asset_type stands in for a missing asset_code.
AssetBalance_type_as_code(balance) ==
    [asset_code   |-> Get(balance, "asset_code", balance["asset_type"]),
     asset_issuer |-> Get(balance, "asset_issuer", None),
     balance      |-> balance["balance"],
     asset_type   |-> balance["asset_type"],
     limit        |-> Get(balance, "limit", None)]

\* AssetBalance(...) built from one entry; the entry has 'balance' and
\* 'asset_type'.
AssetBalance(balance) ==
    [asset_code   |-> Get(balance, "asset_code", "XLM"),
     asset_issuer |-> Get(balance, "asset_issuer", None),
     balance      |-> balance["balance"],
     asset_type   |-> balance["asset_type"],
     limit        |-> Get(balance, "limit", None)]

\* balance['balance'] or balance['asset_type'] raises KeyError
EntryRaises(balance) ==
    ~ ({"balance", "asset_type"} \subseteq DOMAIN balance)

ParseStart ==
    [all_balances |-> <<>>, native_balance |-> "0", wlx_balance |-> None,
     has_wlx |-> FALSE, raised |-> FALSE]
\* Mutant of ParseEntry: the tracked asset is recognised by its code alone.
ParseEntry_code_only(st, balance) ==
    IF st.raised \/ ~ ({"balance", "asset_type"} \subseteq DOMAIN balance)
    THEN [st EXCEPT !.raised = TRUE]
    ELSE LET isNative == balance["asset_type"] = "native"
             isWlx == Get(balance, "asset_code", None) = "WLX"
         IN  [all_balances   |-> Append(st.all_balances, AssetBalance(balance)),
              native_balance |-> IF isNative THEN balance["balance"]
                                 ELSE st.native_balance,
              wlx_balance    |-> IF isWlx THEN balance["balance"]
                                 ELSE st.wlx_balance,
              has_wlx        |-> st.has_wlx \/ isWlx,
              raised         |-> FALSE]

\* Mutant of ParseEntry: an entry without asset_code counts as native XLM.
ParseEntry_xlm_code(st, balance) ==
    IF st.raised \/ ~ ({"balance", "asset_type"} \subseteq DOMAIN balance)
    THEN [st EXCEPT !.raised = TRUE]
    ELSE LET isNative == Get(balance, "asset_code", "XLM") = "XLM"
             isWlx == /\ Get(balance, "asset_code", None) = "WLX"
                      /\ Get(balance, "asset_issuer", None) = WLX_ISSUER
         IN  [all_balances   |-> Append(st.all_balances, AssetBalance(balance)),
              native_balance |-> IF isNative THEN balance["balance"]
                                 ELSE st.native_balance,
              wlx_balance    |-> IF isWlx THEN balance["balance"]
                                 ELSE st.wlx_balance,
              has_wlx        |-> st.has_wlx \/ isWlx,
              raised         |-> FALSE]

\* One iteration of the for loop over account_response['balances'].
ParseEntry(st, balance) ==
    IF st.raised \/ EntryRaises(balance)
    THEN [st EXCEPT !.raised = TRUE]
    ELSE LET isNative == balance["asset_type"] = "native"
             isWlx == /\ Get(balance, "asset_code", None) = "WLX"
                      /\ Get(balance, "asset_issuer", None) = WLX_ISSUER
         IN  [all_balances   |-> Append(st.all_balances, AssetBalance(balance)),
              native_balance |-> IF isNative THEN balance["balance"]
                                 ELSE st.native_balance,
              wlx_balance    |-> IF isWlx THEN balance["balance"]
                                 ELSE st.wlx_balance,
              has_wlx        |-> st.has_wlx \/ isWlx,
              raised         |-> FALSE]

RECURSIVE ParseBalances(_, _, _)
ParseBalances(balances, i, st) ==
    IF i > Len(balances) THEN st
    ELSE ParseBalances(balances, i + 1, ParseEntry(st, balances[i]))

NoBody ==
    [account_id |-> None, native_balance |-> None, wlx_balance |-> None,
     has_wlx |-> FALSE, all_balances |-> <<>>]

\* StellarService.get_account_balances: the WalletBalanceResponse it returns
\* (status 200) or the HTTPException it raises.
get_account_balances(outcome) ==
    IF outcome.kind = "NotFoundError" THEN [status |-> 404, body |-> NoBody]
    ELSE IF outcome.kind = "ConnectionError" THEN [status |-> 503, body |-> NoBody]
    ELSE IF outcome.kind # "ok" THEN [status |-> 500, body |-> NoBody]
    ELSE LET st == ParseBalances(outcome.balances, 1, ParseStart)
         IN  IF st.raised THEN [status |-> 500, body |-> NoBody]
             ELSE [status |-> 200,
                   body |-> [account_id     |-> outcome.account_id,
                             native_balance |-> st.native_balance,
                             wlx_balance    |-> st.wlx_balance,
                             has_wlx        |-> st.has_wlx,
                             all_balances   |-> st.all_balances]]
\* Mutant of get_wallet_balance: the endpoint's catch-all also takes the
\* HTTPException of get_account_balances and answers 500.
get_wallet_balance_catch_all(outcome) ==
    LET r == get_account_balances(outcome)
    IN  IF r.status = 200 THEN r ELSE [status |-> 500, body |-> NoBody]

\* Handler body of POST /api/wallet/balance: HTTPException is re-raised, the
\* WalletBalanceResponse is returned as is.
get_wallet_balance(outcome) == get_account_balances(outcome)

\* Handler body of GET /api/wallet/{public_key}/wlx after validation.
get_wlx_balance(public_key, outcome) ==
    LET balance_data == get_account_balances(outcome)
    IN  IF balance_data.status # 200 THEN balance_data
        ELSE [status |-> 200,
              body |-> [account_id     |-> public_key.text,
                        native_balance |-> balance_data.body.native_balance,
                        wlx_balance    |-> balance_data.body.wlx_balance,
                        has_wlx        |-> balance_data.body.has_wlx]]

\* ------------------------------------------------------------------- state

VARIABLES
    store,      \* db.status_checks: the stored documents, in natural order
    nextId,     \* source of fresh uuid4 values
    created,    \* history: the StatusCheck objects returned by POST /api/status
    reqs,       \* concurrent specification: the state of each request slot
    resp        \* sequential specifications: the last request and its response

vars == <<store, nextId, created, reqs, resp>>

Reqs == 1 .. MaxReqs

\* The routes registered on api_router (prefix /api).
Routes ==
    { "GET /api/", "POST /api/status", "GET /api/status",
      "POST /api/wallet/balance", "GET /api/wallet/{public_key}/wlx",
      "GET /api/health" }

\* Requests a client of the documented HTTP surface may send.
RequestedRoutes ==
    Routes \cup { "POST /api/wallet/tier", "POST /api/transactions" }

\* Amounts sent to POST /api/wallet/tier.
Amounts ==
    { 0, 150, 199, 200, 598, 599, 600, 1998, 1999, 2000, 5998, 6000, 19998,
      20000, 49998, 50000, 99998, 100000, 200000, 200001, 239999, 240000,
      400000, 400001, 2000000 }

IdleReq ==
    [ep |-> "none", pc |-> "idle", key |-> NoKey, kind |-> "none",
     obj |-> None, status |-> 0, queries |-> 0, responses |-> 0]

NoResp ==
    [ep |-> "none", key |-> NoKey, outcome |-> NoOutcome, amount |-> 0,
     queries |-> 0, status |-> 0, body |-> None]

Init ==
    /\ store = <<>>
    /\ nextId = 1
    /\ created = <<>>
    /\ reqs = [r \in Reqs |-> IdleReq]
    /\ resp = NoResp

\* ------------------------------------------------------------ status store

\* StatusCheck(**input.dict()): id and timestamp from the default factories.
StatusCheck(client_name, id, now) ==
    [id |-> id, client_name |-> client_name, timestamp |-> now]

\* The document insert_one stores for status_obj.dict(): a BSON datetime
\* counts milliseconds, the microseconds below are dropped.
BsonDocument(status_obj) ==
    [status_obj EXCEPT !.timestamp = (status_obj.timestamp \div 1000) * 1000]
\* Mutant of find_to_list: no length limit.
find_to_list_unlimited(docs) == docs

\* db.status_checks.find().to_list(1000)
find_to_list(docs) == SubSeq(docs, 1, IF Len(docs) < ListLimit THEN Len(docs) ELSE ListLimit)

\* [StatusCheck(**status_check) for status_check in status_checks]
StatusCheckList(docs) ==
    [i \in 1 .. Len(docs) |->
        StatusCheck(docs[i].client_name, docs[i].id, docs[i].timestamp)]

\* Inputs of the n+1-th POST /api/status of SpecStatus.
StatusInputs(n) ==
    IF n < MaxVaried THEN ClientNames \X Timestamps ELSE { DefaultInput }

\* ------------------------------------------- sequential handlers (one call)

Respond(ep, key, outcome, amount, queries, status, body) ==
    resp' = [ep |-> ep, key |-> key, outcome |-> outcome, amount |-> amount,
             queries |-> queries, status |-> status, body |-> body]

\* POST /api/status, the whole handler.
create_status_check ==
    /\ Len(store) < MaxStatusPosts
    /\ \E input \in StatusInputs(Len(store)) :
         LET status_obj == StatusCheck(input[1], nextId, input[2])
         IN  /\ store' = Append(store, BsonDocument(status_obj))
             /\ created' = Append(created, status_obj)
             /\ nextId' = nextId + 1
             /\ Respond("POST /api/status", NoKey, NoOutcome, 0, 0, 200, status_obj)
    /\ UNCHANGED reqs

\* GET /api/status, the whole handler.
get_status_checks ==
    /\ Respond("GET /api/status", NoKey, NoOutcome, 0, 0, 200,
               StatusCheckList(find_to_list(store)))
    /\ UNCHANGED <<store, nextId, created, reqs>>

\* POST /api/wallet/balance: the request model validates public_key (422 on
\* failure, the handler does not run), then the handler queries the ledger.
wallet_balance ==
    /\ \E key \in Keys :
         IF ~ validate_public_key(key)
         THEN Respond("POST /api/wallet/balance", key, NoOutcome, 0, 0, 422, NoBody)
         ELSE \E outcome \in LedgerOutcomes :
                LET r == get_wallet_balance(outcome)
                IN  Respond("POST /api/wallet/balance", key, outcome, 0, 1,
                            r.status, r.body)
    /\ UNCHANGED <<store, nextId, created, reqs>>

\* GET /api/wallet/{public_key}/wlx: 400 on an invalid key, else the query.
wlx_balance ==
    /\ \E key \in Keys :
         IF ~ from_public_key(key)
         THEN Respond("GET /api/wallet/{public_key}/wlx", key, NoOutcome, 0, 0,
                      400, NoBody)
         ELSE \E outcome \in LedgerOutcomes :
                LET r == get_wlx_balance(key, outcome)
                IN  Respond("GET /api/wallet/{public_key}/wlx", key, outcome, 0,
                            1, r.status, r.body)
    /\ UNCHANGED <<store, nextId, created, reqs>>

\* GET /api/
root ==
    /\ Respond("GET /api/", NoKey, NoOutcome, 0, 0, 200,
               [message |-> "WhiplashXLM Bot API - Ready to track your WLX assets!"])
    /\ UNCHANGED <<store, nextId, created, reqs>>

\* GET /api/health
health_check ==
    /\ Respond("GET /api/health", NoKey, NoOutcome, 0, 0, 200,
               [status |-> "healthy", service |-> "whiplash-xlm-bot-api",
                stellar_network |-> "mainnet"])
    /\ UNCHANGED <<store, nextId, created, reqs>>

\* A request whose method and path match no route of the application: the
\* router answers 404 {"detail": "Not Found"} and no handler runs.
route_not_found ==
    /\ \E ep \in RequestedRoutes \ Routes, amount \in Amounts :
         Respond(ep, NoKey, NoOutcome, amount, 0, 404, [detail |-> "Not Found"])
    /\ UNCHANGED <<store, nextId, created, reqs>>

NextWallet == wallet_balance \/ wlx_balance \/ root \/ health_check \/ route_not_found

SpecWallet == Init /\ [][NextWallet]_vars

NextStatus == create_status_check \/ get_status_checks

SpecStatus == Init /\ [][NextStatus]_vars

\* ------------------------------------ concurrent handlers (request slots)
\* Each slot serves one request.  A handler is cut where it waits for the
\* database or the ledger; between two waits it runs without interleaving.

Idle(r) == reqs[r].pc = "idle"

\* A slot ends with its one response.
Done(r, ep, key, kind, status) ==
    reqs' = [reqs EXCEPT ![r] =
               [ep |-> ep, pc |-> "done", key |-> key, kind |-> kind,
                obj |-> reqs[r].obj, status |-> status,
                queries |-> reqs[r].queries,
                responses |-> reqs[r].responses + 1]]
\* Mutant of status_insert: the document replaces the newest stored one.
status_insert_replace(r) ==
    /\ reqs[r].pc = "idle"
    /\ \E client_name \in ClientNames, now \in Timestamps :
         LET status_obj == StatusCheck(client_name, nextId, now)
         IN  /\ store' = IF Len(store) = 0
                         THEN <<BsonDocument(status_obj)>>
                         ELSE [store EXCEPT ![Len(store)] = BsonDocument(status_obj)]
             /\ nextId' = nextId + 1
             /\ reqs' = [reqs EXCEPT ![r].ep = "POST /api/status",
                                     ![r].pc = "inserted",
                                     ![r].obj = status_obj]
    /\ UNCHANGED <<created, resp>>

\* POST /api/status up to the insert: the record is built and stored.
status_insert(r) ==
    /\ Idle(r)
    /\ \E client_name \in ClientNames, now \in Timestamps :
         LET status_obj == StatusCheck(client_name, nextId, now)
         IN  /\ store' = Append(store, BsonDocument(status_obj))
             /\ nextId' = nextId + 1
             /\ reqs' = [reqs EXCEPT ![r].ep = "POST /api/status",
                                     ![r].pc = "inserted",
                                     ![r].obj = status_obj]
    /\ UNCHANGED <<created, resp>>

\* POST /api/status after the insert: return status_obj.
status_return(r) ==
    /\ reqs[r].pc = "inserted"
    /\ created' = Append(created, reqs[r].obj)
    /\ Done(r, reqs[r].ep, NoKey, "none", 200)
    /\ UNCHANGED <<store, nextId, resp>>

\* GET /api/status: find().to_list(1000) reads the collection once.
status_list(r) ==
    /\ Idle(r)
    /\ Done(r, "GET /api/status", NoKey, "none", 200)
    /\ UNCHANGED <<store, nextId, created, resp>>

\* GET /api/ and GET /api/health
plain_get(r) ==
    /\ Idle(r)
    /\ \E ep \in {"GET /api/", "GET /api/health"} :
         Done(r, ep, NoKey, "none", 200)
    /\ UNCHANGED <<store, nextId, created, resp>>

\* The ledger query is issued: self.server.accounts().account_id(k).call()
IssueQuery(r, ep, key) ==
    reqs' = [reqs EXCEPT ![r].ep = ep, ![r].pc = "query", ![r].key = key,
                         ![r].queries = reqs[r].queries + 1]

\* POST /api/wallet/balance up to the ledger query.
wallet_balance_start(r) ==
    /\ Idle(r)
    /\ \E key \in Keys :
         IF ~ validate_public_key(key)
         THEN Done(r, "POST /api/wallet/balance", key, "none", 422)
         ELSE IssueQuery(r, "POST /api/wallet/balance", key)
    /\ UNCHANGED <<store, nextId, created, resp>>
\* Mutant of wlx_balance_start: the query is issued without the key check.
wlx_balance_start_unchecked(r) ==
    /\ Idle(r)
    /\ \E key \in Keys : IssueQuery(r, "GET /api/wallet/{public_key}/wlx", key)
    /\ UNCHANGED <<store, nextId, created, resp>>

\* GET /api/wallet/{public_key}/wlx up to the ledger query.
wlx_balance_start(r) ==
    /\ Idle(r)
    /\ \E key \in Keys :
         IF ~ from_public_key(key)
         THEN Done(r, "GET /api/wallet/{public_key}/wlx", key, "none", 400)
         ELSE IssueQuery(r, "GET /api/wallet/{public_key}/wlx", key)
    /\ UNCHANGED <<store, nextId, created, resp>>

\* What the handler does with the outcome of its ledger query.
AfterQuery(r, outcome) ==
    LET res == IF reqs[r].ep = "POST /api/wallet/balance"
               THEN get_wallet_balance(outcome)
               ELSE get_wlx_balance(reqs[r].key, outcome)
    IN  Done(r, reqs[r].ep, reqs[r].key,
             IF outcome.kind = "ok" /\ res.status # 200 THEN "parse" ELSE outcome.kind,
             res.status)
\* Mutant of ledger_answer: a connection failure is retried.
ledger_answer_retry(r) ==
    /\ reqs[r].pc = "query"
    /\ \E outcome \in SlotOutcomes :
         IF outcome.kind = "ConnectionError" /\ reqs[r].queries < 3
         THEN reqs' = [reqs EXCEPT ![r].queries = reqs[r].queries + 1]
         ELSE AfterQuery(r, outcome)
    /\ UNCHANGED <<store, nextId, created, resp>>

\* The ledger query of slot r ends (an answer, an error or the client's
\* timeout) and the handler runs to its response.
ledger_answer(r) ==
    /\ reqs[r].pc = "query"
    /\ \E outcome \in SlotOutcomes : AfterQuery(r, outcome)
    /\ UNCHANGED <<store, nextId, created, resp>>

Next ==
    \E r \in Reqs :
        \/ status_insert(r)
        \/ status_return(r)
        \/ status_list(r)
        \/ plain_get(r)
        \/ wallet_balance_start(r)
        \/ wlx_balance_start(r)
        \/ ledger_answer(r)

Spec == Init /\ [][Next]_vars

\* A handler that waits for the database or the ledger is resumed: the insert
\* is acknowledged, the ledger call returns or raises.
FairSpec ==
    /\ Spec
    /\ \A r \in Reqs : WF_vars(status_return(r)) /\ WF_vars(ledger_answer(r))

\* ================================================================== claims

WalletEndpoints == {"POST /api/wallet/balance", "GET /api/wallet/{public_key}/wlx"}

\* The last request was a wallet request with a structurally valid key.
ValidWalletRequest ==
    /\ resp.ep \in WalletEndpoints
    /\ resp.key.len = 56 /\ resp.key.version = "G" /\ resp.key.checksum_ok

\* Every entry of a ledger answer carries the fields the parser reads.
WellFormed(outcome) ==
    /\ outcome.kind = "ok"
    /\ \A i \in DOMAIN outcome.balances :
         {"balance", "asset_type"} \subseteq DOMAIN outcome.balances[i]

\* C1: for both wallet endpoints called with a valid key the status follows
\* the outcome of the ledger query: not found gives 404, a connection failure
\* 503, any other failure (a balance entry that cannot be parsed included) 500,
\* and a successful query never gives an error status.
C1_StatusFollowsOutcome ==
    ValidWalletRequest =>
        /\ resp.outcome.kind = "NotFoundError" => resp.status = 404
        /\ resp.outcome.kind = "ConnectionError" => resp.status = 503
        /\ resp.outcome.kind = "BadRequestError" => resp.status = 500
        /\ (resp.outcome.kind = "ok" /\ ~ WellFormed(resp.outcome)) => resp.status = 500
        /\ WellFormed(resp.outcome) => resp.status = 200

C1_Witness ==
    /\ ValidWalletRequest
    /\ resp.ep = "POST /api/wallet/balance"
    /\ resp.outcome.kind = "NotFoundError"
    /\ resp.status = 404

\* The entries of a balances list that are the tracked asset.
Tracked(balances) ==
    { i \in DOMAIN balances :
        /\ "asset_code" \in DOMAIN balances[i]
        /\ "asset_issuer" \in DOMAIN balances[i]
        /\ balances[i].asset_code = "WLX"
        /\ balances[i].asset_issuer = WLX_ISSUER }

\* C7: on a successful query, has_wlx is true exactly when some entry has code
\* WLX and the configured issuer; wlx_balance is that entry's balance, and is
\* null exactly when has_wlx is false; both wallet endpoints report the same.
C7_TrackedAsset ==
    (ValidWalletRequest /\ resp.status = 200) =>
        LET balances == resp.outcome.balances
        IN  /\ resp.body.has_wlx = (Tracked(balances) # {})
            /\ resp.body.has_wlx =>
                 \E i \in Tracked(balances) : resp.body.wlx_balance = balances[i].balance
            /\ (resp.body.wlx_balance = None) = ~ resp.body.has_wlx

C7_Witness ==
    /\ ValidWalletRequest
    /\ resp.ep = "GET /api/wallet/{public_key}/wlx"
    /\ resp.status = 200
    /\ Len(resp.outcome.balances) = 2
    /\ resp.outcome.balances[1].balance = "5.0"
    /\ resp.outcome.balances[2].balance = "6.0"
    /\ resp.body.has_wlx
    /\ resp.body.wlx_balance = "5.0"

\* C9: on a successful query, all_balances of POST /api/wallet/balance has one
\* element per ledger entry, in order, with the entry's balance, asset_type,
\* asset_issuer and limit, and its asset_code or 'XLM' when it has none; the
\* account_id is the ledger's.
C9_AllBalances ==
    (ValidWalletRequest /\ resp.ep = "POST /api/wallet/balance" /\ resp.status = 200) =>
        LET balances == resp.outcome.balances
            all == resp.body.all_balances
        IN  /\ resp.body.account_id = resp.outcome.account_id
            /\ Len(all) = Len(balances)
            /\ \A i \in DOMAIN balances :
                 /\ all[i].balance = balances[i].balance
                 /\ all[i].asset_type = balances[i].asset_type
                 /\ all[i].asset_issuer =
                      (IF "asset_issuer" \in DOMAIN balances[i]
                       THEN balances[i].asset_issuer ELSE None)
                 /\ all[i].limit =
                      (IF "limit" \in DOMAIN balances[i] THEN balances[i].limit ELSE None)
                 /\ all[i].asset_code =
                      (IF "asset_code" \in DOMAIN balances[i]
                       THEN balances[i].asset_code ELSE "XLM")

C9_Witness ==
    /\ ValidWalletRequest
    /\ resp.ep = "POST /api/wallet/balance"
    /\ resp.status = 200
    /\ resp.outcome.account_id # resp.key.text
    /\ Len(resp.body.all_balances) = 2
    /\ resp.outcome.balances[1].asset_type = "liquidity_pool_shares"
    /\ resp.body.all_balances[1].asset_code = "XLM"
    /\ resp.body.all_balances[2].asset_code = "WLX"

\* The native entries of a balances list.
Natives(balances) ==
    { i \in DOMAIN balances : balances[i].asset_type = "native" }

\* C10: on a successful query, native_balance is the balance of the last entry
\* of asset_type 'native', and "0" when there is none; never another entry's.
C10_NativeBalance ==
    (ValidWalletRequest /\ resp.status = 200) =>
        LET balances == resp.outcome.balances
            natives == Natives(balances)
        IN  IF natives = {} THEN resp.body.native_balance = "0"
            ELSE \E i \in natives :
                   /\ \A j \in natives : j <= i
                   /\ resp.body.native_balance = balances[i].balance

C10_Witness ==
    /\ ValidWalletRequest
    /\ resp.status = 200
    /\ Len(resp.outcome.balances) = 2
    /\ resp.outcome.balances[1].balance = "10.0"
    /\ resp.outcome.balances[2].balance = "20.0"
    /\ resp.body.native_balance = "20.0"

C10_WitnessNone ==
    /\ ValidWalletRequest
    /\ resp.status = 200
    /\ Natives(resp.outcome.balances) = {}
    /\ Len(resp.outcome.balances) = 2
    /\ resp.body.native_balance = "0"

\* The rule table of the tier calculator as the specification states it:
\* the label of the first rule whose inclusive range holds the amount, the
\* sentinel when none does.  The labels are written with an ASCII hyphen where
\* the specification has an en dash.
TierLabel(a) ==
    IF a >= 200 /\ a <= 598 THEN "0.274-0.819 XLM"
    ELSE IF a >= 600 /\ a <= 1998 THEN "0.822-2.739 XLM"
    ELSE IF a >= 2000 /\ a <= 5998 THEN "2.740-8.217 XLM"
    ELSE IF a >= 6000 /\ a <= 19998 THEN "8.219-27.397 XLM"
    ELSE IF a >= 20000 /\ a <= 49998 THEN "27.397-68.475 XLM"
    ELSE IF a >= 50000 /\ a <= 99998 THEN "68.475-136.986 XLM"
    ELSE IF a >= 100000 /\ a <= 200000 THEN "137-274 XLM"
    ELSE IF a >= 240000 /\ a <= 400000 THEN "329-548 XLM"
    ELSE IF a > 400000 THEN "548+ XLM"
    ELSE "Contact Support"

\* The tier label a response carries, None when it carries none.
LabelOf(response) ==
    IF response.status = 200 /\ "tier" \in DOMAIN response.body
    THEN response.body.tier ELSE None

\* C3: the program serves the tier calculator through POST /api/wallet/tier,
\* and an amount inside a rule's inclusive range gets that rule's label.
C3_TierRules ==
    (resp.ep = "POST /api/wallet/tier" /\ TierLabel(resp.amount) # "Contact Support") =>
        LabelOf(resp) = TierLabel(resp.amount)

\* C4: the tier calculator is total, and an amount in no rule's range (0, 199,
\* 599, 200001..239999) gets the sentinel "Contact Support".
C4_TierFallback ==
    (resp.ep = "POST /api/wallet/tier" /\ TierLabel(resp.amount) = "Contact Support") =>
        LabelOf(resp) = "Contact Support"

\* A timestamp as the store keeps it.
Millis(t) == (t \div 1000) * 1000

\* C5 as stated: GET /api/status returns all records of the completed POST
\* /api/status requests, each once, in insertion order, with the id,
\* client_name and timestamp it was created with, however many there are.
C5_ListsAllAsCreated ==
    resp.ep = "GET /api/status" => resp.body = created

\* C5 as amended: GET /api/status returns the first 1000 records of the
\* completed POST /api/status requests (all of them when there are at most
\* 1000), each once, in insertion order, with the id and client_name it was
\* created with and its timestamp cut to whole milliseconds.
C5_ListsFirstThousand ==
    resp.ep = "GET /api/status" =>
        LET n == IF Len(created) <= 1000 THEN Len(created) ELSE 1000
        IN  /\ Len(resp.body) = n
            /\ \A i \in 1 .. n :
                 /\ resp.body[i].id = created[i].id
                 /\ resp.body[i].client_name = created[i].client_name
                 /\ resp.body[i].timestamp = Millis(created[i].timestamp)

C5_Witness ==
    /\ resp.ep = "GET /api/status"
    /\ Len(created) = 1001
    /\ Len(resp.body) = 1000
    /\ created[1].timestamp = 2500
    /\ resp.body[1].timestamp = 2000

\* The slots whose POST /api/status has stored its record.
Inserted == { r \in Reqs : reqs[r].ep = "POST /api/status" /\ reqs[r].pc \in {"inserted", "done"} }

\* C6: the store is append-only under every interleaving: a step changes it
\* only by appending one record, and only as the insert of a POST /api/status;
\* every other step of every endpoint leaves it as it is; the store holds
\* exactly one record per POST /api/status that has inserted, none lost.
C6_AppendOnly ==
    /\ [][ \/ store' = store
           \/ /\ Len(store') = Len(store) + 1
              /\ SubSeq(store', 1, Len(store)) = store
              /\ \E r \in Reqs :
                   /\ reqs[r].pc = "idle"
                   /\ reqs'[r].ep = "POST /api/status"
                   /\ reqs'[r].pc = "inserted"
                   /\ \A q \in Reqs \ {r} : reqs'[q] = reqs[q] ]_vars
    /\ [](Len(store) = Cardinality(Inserted))
    /\ [](\A i, j \in DOMAIN store : store[i].id = store[j].id => i = j)

C6_Witness ==
    /\ Len(store) = 2
    /\ \E r, q \in Reqs :
         /\ r # q
         /\ reqs[r].pc = "inserted"
         /\ reqs[q].pc = "inserted"

\* C8: validation precedes the ledger query: GET /api/wallet/{public_key}/wlx
\* with an invalid key ends with 400 and POST /api/wallet/balance with an
\* invalid key is rejected (422), in both cases without a ledger query; a
\* query is issued only for a key the validator accepted.
C8_ValidationFirst ==
    \A r \in Reqs :
        LET valid == reqs[r].key.len = 56 /\ reqs[r].key.version = "G"
                     /\ reqs[r].key.checksum_ok
        IN  /\ reqs[r].queries > 0 => valid
            /\ (reqs[r].ep \in WalletEndpoints /\ ~ valid) =>
                 /\ reqs[r].pc = "done"
                 /\ reqs[r].queries = 0
                 /\ reqs[r].status =
                      (IF reqs[r].ep = "POST /api/wallet/balance" THEN 422 ELSE 400)

C8_Witness ==
    \E r \in Reqs :
        /\ reqs[r].ep = "GET /api/wallet/{public_key}/wlx"
        /\ reqs[r].key.text = "GBADCRC"
        /\ reqs[r].status = 400
        /\ reqs[r].queries = 0

\* C2: no retries: a wallet request issues at most one ledger query; once the
\* query has failed the request is at its terminal error response and issues
\* no further query; every request that starts reaches exactly one response.
C2_NoRetries ==
    /\ [](\A r \in Reqs :
            /\ reqs[r].queries <= 1
            /\ reqs[r].responses = (IF reqs[r].pc = "done" THEN 1 ELSE 0)
            /\ (reqs[r].kind \in {"NotFoundError", "ConnectionError",
                                  "BadRequestError", "parse"}) =>
                 /\ reqs[r].pc = "done"
                 /\ reqs[r].status \in {404, 503, 500})
    /\ [][\A r \in Reqs : reqs[r].pc = "done" => reqs'[r] = reqs[r]]_vars
    /\ \A r \in Reqs : (reqs[r].pc # "idle") ~> (reqs[r].pc = "done")

C2_Witness ==
    \E r \in Reqs :
        /\ reqs[r].ep = "POST /api/wallet/balance"
        /\ reqs[r].kind = "ConnectionError"
        /\ reqs[r].pc = "done"
        /\ reqs[r].status = 503
        /\ reqs[r].queries = 1
        /\ reqs[r].responses = 1

====
